---- MODULE Spec2Model ----
(***************************************************************************)
(* Model of the OpenAPI traffic audit engine of @rhds/api                  *)
(* (packages/api/src/api-test-helpers/audit/openapi-auditor.ts) together   *)
(* with the file-operations object the services configure it with.         *)
(*                                                                         *)
(* Spec       the auditor's life cycle: registerPlugin, the three request  *)
(*            hooks, setup, writeTraffic and teardown acting on the        *)
(*            in-memory log and on the stored files.                       *)
(* SpecMatch  normalizePathForSchema applied to bounded specifications     *)
(*            and request targets.                                         *)
(* SpecReport generateReport applied to bounded specifications and         *)
(*            aggregated traffic.                                          *)
(* SpecCleanup setup, with its cleanup, called over any stored files.      *)
(***************************************************************************)
EXTENDS Integers, Sequences, FiniteSets, TLC

VARIABLES
    fileOps,    \* the FileOperations given to the constructor: whether it has removeFile
    traffic,    \* OpenApiAuditor.traffic, the in-memory log
    attached,   \* some service instance carries the recorder's hooks
    ex,         \* the exchanges: position in the request life cycle and request.__traffic
    disk,       \* the files reachable through fileOps
    wt,         \* a writeTraffic call is suspended on the promise its writeFile returned
    last,       \* how the most recent public operation ended (history)
    appends,    \* per exchange, how many times a record was pushed for it (history)
    fresh,      \* exchanges whose record was pushed since the latest setup began (history)
    stale,      \* stored files last written before the latest setup began (history)
    cleaned,    \* what the latest clearGeneratedDirectory achieved (history)
    mPaths,     \* SpecMatch: the keys of schema.paths in declaration order
    mUrl,       \* SpecMatch: the request target
    mResult,    \* SpecMatch: what normalizePathForSchema returned
    cPaths,     \* SpecReport: schema.paths, its entries in declaration order
    cTraffic,   \* SpecReport: the records aggregated from the traffic files
    cResult     \* SpecReport: what generateReport put in the report

vars == <<fileOps, traffic, attached, ex, disk, wt, last, appends, fresh, stale, cleaned,
          mPaths, mUrl, mResult, cPaths, cTraffic, cResult>>

matchVars == <<mPaths, mUrl, mResult>>

reportVars == <<cPaths, cTraffic, cResult>>

(***************************************************************************)
(* Bounds of the model.                                                    *)
(***************************************************************************)
MaxEx == 2       \* exchanges served in one behaviour

Exchanges == 1..MaxEx

(***************************************************************************)
(* Paths and the auditor's options.  A path is its directory, the stem of  *)
(* its file name and the extension.                                        *)
(***************************************************************************)
Path(dir, stem, ext) == [dir |-> dir, stem |-> stem, ext |-> ext]

generatedDir == <<".", "generated">>

schemaPath == Path(generatedDir, "openapi-schema", "json")

trafficDir == <<".", "generated", "traffic">>

reportPath == Path(generatedDir, "audit-report", "md")

\* filePath.split('/').slice(0, -1).join('/')
getDir(filePath) == filePath.dir

\* test-suite names the callers pass to writeTraffic
Suites == {"suiteA", "suiteB"}

\* `${trafficDir}/${testSuiteName}.json`
TrafficPath(testSuiteName) == Path(trafficDir, testSuiteName, "json")

\* `${trafficDir}/integration-tests-traffic.json`
TeardownPath == TrafficPath("integration-tests-traffic")

\* files no audit cycle writes: one that the cleanup patterns cover, one next to it
\* with another extension, one in another directory
otherJson == Path(generatedDir, "notes", "json")

otherText == Path(generatedDir, "notes", "txt")

outsideJson == Path(<<".">>, "package", "json")

\* the stored files of the model, in directory-listing order
FileOrder ==
    << reportPath, otherJson, otherText, schemaPath, TeardownPath, TrafficPath("suiteA"),
       TrafficPath("suiteB"), outsideJson >>

Files == { FileOrder[i] : i \in 1..Len(FileOrder) }

(***************************************************************************)
(* File contents.                                                          *)
(***************************************************************************)
NoText == [kind |-> "none", recs |-> <<>>, total |-> 0]

Absent == [exists |-> FALSE, text |-> NoText]

File(text) == [exists |-> TRUE, text |-> text]

\* JSON.stringify drops a property whose value is undefined
JSONstringifyRecord(r) ==
    [r EXCEPT !.request = IF @ = "undefined" THEN "omitted" ELSE @,
              !.response = IF @ = "undefined" THEN "omitted" ELSE @]

\* reading a property the parsed object lacks gives undefined
JSONparseRecord(r) ==
    [r EXCEPT !.request = IF @ = "omitted" THEN "undefined" ELSE @,
              !.response = IF @ = "omitted" THEN "undefined" ELSE @]

\* JSON.stringify(this.traffic, null, 2)
JSONstringify(log) ==
    [kind |-> "traffic", recs |-> [i \in 1..Len(log) |-> JSONstringifyRecord(log[i])],
     total |-> 0]

\* JSON.parse(content) as TrafficRecord[]
JSONparse(text) == [i \in 1..Len(text.recs) |-> JSONparseRecord(text.recs[i])]

\* JSON.stringify(app.swagger(), null, 2)
SchemaText == [kind |-> "schema", recs |-> <<>>, total |-> 0]

(***************************************************************************)
(* The FileOperations object of the services.                              *)
(***************************************************************************)
Pattern(dir, ext) == [dir |-> dir, ext |-> ext]

\* a glob that answers with every file of the pattern's directory
Glob_WholeDirectory(d, pattern) ==
    SelectSeq(FileOrder, LAMBDA f : d[f].exists /\ f.dir = pattern.dir)

\* glob: the files of the pattern's directory that end with its extension
Glob(d, pattern) ==
    SelectSeq(FileOrder,
              LAMBDA f : d[f].exists /\ f.dir = pattern.dir /\ f.ext = pattern.ext)

RECURSIVE Concat(_)
Concat(ss) == IF ss = <<>> THEN <<>> ELSE Head(ss) \o Concat(Tail(ss))

Range(s) == { s[i] : i \in 1..Len(s) }

Ids(log) == { log[i].url : i \in 1..Len(log) }

(***************************************************************************)
(* Traffic records and the recorder's hooks (registerPlugin).              *)
(***************************************************************************)
\* the requests the tests inject and the replies the service gives: exchange e asks
\* for the target numbered e; odd exchanges are GETs without a body answered 200,
\* even ones POSTs with a body answered 404
RequestOf(e) ==
    [method |-> IF e % 2 = 1 THEN "GET" ELSE "POST", url |-> e,
     body |-> IF e % 2 = 1 THEN "undefined" ELSE "body"]

ReplyOf(e) ==
    [statusCode |-> IF e % 2 = 1 THEN 200 ELSE 404, payload |-> "jsonString"]

\* request.__traffic before the onRequest hook ran
NoPartial ==
    [method |-> "", url |-> 0, request |-> "undefined", status |-> 0, response |-> "undefined"]

\* the holder the onRequest hook attaches
NewPartial(e) ==
    [method |-> RequestOf(e).method, url |-> RequestOf(e).url, request |-> "undefined",
     status |-> 0, response |-> "undefined"]

\* parseResponsePayload: a string payload is parsed when it is JSON, kept as it is otherwise
parseResponsePayload(payload) == IF payload = "jsonString" THEN "parsed" ELSE payload

\* a recorder that pushes the holder as soon as the body is known
PreHandlerLog_Push(log, partial) == Append(log, partial)

\* the log after the preHandler hook: the hook pushes nothing
PreHandlerLog(log, partial) == log

\* a recorder that pushes the record on every raw write of the response
RawWriteLog_Push(log, partial) == Append(log, partial)

\* the log after a raw write: no hook of the recorder runs
RawWriteLog(log, partial) == log

\* a recorder that puts the record in front of the log
PushRecord_Front(log, partial) == <<partial>> \o log

\* this.traffic.push(partial as TrafficRecord)
PushRecord(log, partial) == Append(log, partial)

\* history: pushes counted by the growth of the log
Pushed(e, before, after) == [appends EXCEPT ![e] = @ + (Len(after) - Len(before))]

\* history: a cycle begins with a call of setup; a record pushed since then is fresh
Aged(e, before, after) == IF Len(after) > Len(before) THEN fresh \cup {e} ELSE fresh

\* history: how a public operation ended: "ok", "raised" (it threw or rejected) or
\* "caught" (an error was caught inside and the operation returned)
Ended(how, cause) == [how |-> how, cause |-> cause]

\* registerPlugin(fastify): a fresh log, and the three hooks on the instance
RegisterPlugin ==
    /\ ~wt
    /\ attached' = TRUE
    /\ traffic' = <<>>
    /\ last' = Ended("ok", "none")
    /\ UNCHANGED <<fileOps, ex, disk, wt, appends, fresh, stale, cleaned>>
    /\ UNCHANGED <<matchVars, reportVars>>

\* the onRequest hook: a request arrives at an instance that has the hooks
OnRequest(e) ==
    /\ attached
    /\ ex[e].pc = "idle"
    /\ e > 1 => ex[e - 1].pc # "idle"
    /\ ex' = [ex EXCEPT ![e] = [pc |-> "arrived", partial |-> NewPartial(e)]]
    /\ UNCHANGED <<fileOps, traffic, attached, disk, wt, last, appends, fresh, stale,
                   cleaned>>
    /\ UNCHANGED <<matchVars, reportVars>>

\* the preHandler hook: the parsed body is stored in the holder
PreHandler(e) ==
    /\ ex[e].pc = "arrived"
    /\ LET partial == IF ex[e].partial # NoPartial
                      THEN [ex[e].partial EXCEPT !.request = RequestOf(e).body]
                      ELSE ex[e].partial
           log == PreHandlerLog(traffic, partial)
       IN /\ ex' = [ex EXCEPT ![e] = [@ EXCEPT !.pc = "handled", !.partial = partial]]
          /\ traffic' = log
          /\ appends' = Pushed(e, traffic, log)
          /\ fresh' = Aged(e, traffic, log)
    /\ UNCHANGED <<fileOps, attached, disk, wt, last, stale, cleaned>>
    /\ UNCHANGED <<matchVars, reportVars>>

\* a recorder with one holder for the whole instance: the holder of the exchange that
\* arrived last
Holder_Latest(exs, e) ==
    exs[CHOOSE x \in Exchanges :
            /\ exs[x].pc # "idle"
            /\ \A y \in Exchanges : exs[y].pc # "idle" => y <= x].partial

\* (request as any).__traffic: the holder attached to the request of this exchange
Holder(exs, e) == exs[e].partial

\* the onSend hook: the response is final; status and payload complete the holder,
\* which is pushed on the log
OnSend(e) ==
    /\ ex[e].pc = "handled"
    /\ LET partial == [Holder(ex, e) EXCEPT
                          !.status = ReplyOf(e).statusCode,
                          !.response = parseResponsePayload(ReplyOf(e).payload)]
           log == IF Holder(ex, e) = NoPartial THEN traffic ELSE PushRecord(traffic, partial)
       IN /\ ex' = [ex EXCEPT ![e] = [@ EXCEPT !.pc = "sent",
                        !.partial = IF Holder(ex, e) = NoPartial THEN @ ELSE partial]]
          /\ traffic' = log
          /\ appends' = Pushed(e, traffic, log)
          /\ fresh' = Aged(e, traffic, log)
    /\ UNCHANGED <<fileOps, attached, disk, wt, last, stale, cleaned>>
    /\ UNCHANGED <<matchVars, reportVars>>

\* the service writes the response to the socket after onSend, in one or more raw
\* writes (reply.raw.write, reply.raw.end): no hook of the recorder runs for them
RawWrite(e) ==
    /\ ex[e].pc = "sent"
    /\ LET log == RawWriteLog(traffic, ex[e].partial)
       IN /\ traffic' = log
          /\ appends' = Pushed(e, traffic, log)
          /\ fresh' = Aged(e, traffic, log)
    /\ UNCHANGED <<fileOps, attached, ex, disk, wt, last, stale, cleaned>>
    /\ UNCHANGED <<matchVars, reportVars>>

(***************************************************************************)
(* Cleanup (clearGeneratedDirectory, safeGlob).                            *)
(***************************************************************************)
\* a cleanup that forgets the traffic directory
CleanupPatterns_NoTraffic ==
    << Pattern(getDir(schemaPath), "json"), Pattern(getDir(schemaPath), "md") >>

\* the three patterns cleared: `${generatedDir}/*.json`, `${trafficDir}/*.json`,
\* `${generatedDir}/*.md`
CleanupPatterns ==
    << Pattern(getDir(schemaPath), "json"), Pattern(trafficDir, "json"),
       Pattern(getDir(schemaPath), "md") >>

\* safeGlob: a glob that throws or rejects yields no file
safeGlob(d, pattern, throws) == IF throws THEN <<>> ELSE Glob(d, pattern)

\* allFiles, when the globs whose index is in globThrows fail
AllFiles(d, globThrows) ==
    Concat([i \in 1..Len(CleanupPatterns) |->
               safeGlob(d, CleanupPatterns[i], i \in globThrows)])

\* the stored files after the removal loop removed the first k files of allFiles
RemoveFirst(d, allFiles, k) ==
    [f \in Files |-> IF \E i \in 1..k : allFiles[i] = f THEN Absent ELSE d[f]]

\* clearGeneratedDirectory: nothing is removed without fileOps.removeFile; the loop
\* ends at the first removeFile that throws (after k removals) and the error is dropped
clearGeneratedDirectory(d, globThrows, k) ==
    IF fileOps.removeFile THEN RemoveFirst(d, AllFiles(d, globThrows), k) ELSE d

(***************************************************************************)
(* Report generation (generateAuditReport).                                *)
(***************************************************************************)
\* a placeholder that is the full report over no records
EmptyReport_Summary == [kind |-> "report-full", recs |-> <<>>, total |-> 0]

\* generateEmptyReport()
EmptyReport == [kind |-> "report-empty", recs |-> <<>>, total |-> 0]

\* the distinct request targets among the records, in ascending order
Targets(allTraffic) ==
    SelectSeq([i \in 1..MaxEx |-> i], LAMBDA i : i \in Ids(allTraffic))

\* generateReport(schema, traffic): Total Requests is the number of records; the
\* sections list the endpoints the records name
generateReport(schema, allTraffic) ==
    [kind |-> "report-full", recs |-> Targets(allTraffic), total |-> Len(allTraffic)]

Thrown(cause) == [ok |-> FALSE, cause |-> cause, text |-> NoText]

Returned(text) == [ok |-> TRUE, cause |-> "none", text |-> text]

\* a report generator that reads back only the snapshot teardown writes
ReportTrafficFiles_OwnOnly(d) ==
    SelectSeq(Glob(d, Pattern(trafficDir, "json")), LAMBDA f : f = TeardownPath)

\* fileOps.glob(`${trafficDir}/*.json`)
ReportTrafficFiles(d) == Glob(d, Pattern(trafficDir, "json"))

\* allTraffic: the records of every traffic file, in glob order
AllTraffic(d) ==
    LET fs == ReportTrafficFiles(d)
    IN Concat([i \in 1..Len(fs) |-> JSONparse(d[fs[i]].text)])

\* a generator that answers a specification it cannot load with the placeholder
generateAuditReport_Placeholder(d, fault) ==
    IF fault = "spec" \/ ~d[schemaPath].exists
    THEN Returned(EmptyReport)
    ELSE IF AllTraffic(d) = <<>> THEN Returned(EmptyReport)
    ELSE Returned(generateReport(d[schemaPath].text, AllTraffic(d)))

\* a generator that looks for traffic before it loads the specification
generateAuditReport_TrafficFirst(d, fault) ==
    IF fault = "traffic" THEN Thrown("port")
    ELSE IF AllTraffic(d) = <<>> THEN Returned(EmptyReport)
    ELSE IF fault = "spec" \/ ~d[schemaPath].exists THEN Thrown("spec")
    ELSE Returned(generateReport(d[schemaPath].text, AllTraffic(d)))

\* generateAuditReport: readFile and JSON.parse of the specification, then the glob
\* and the reads of the traffic files; any of them may throw
generateAuditReport(d, fault) ==
    IF fault = "spec" \/ ~d[schemaPath].exists THEN Thrown("spec")
    ELSE IF fault = "traffic" THEN Thrown("port")
    ELSE IF AllTraffic(d) = <<>> THEN Returned(EmptyReport)
    ELSE Returned(generateReport(d[schemaPath].text, AllTraffic(d)))

(***************************************************************************)
(* The public operations: setup, teardown, writeTraffic.                   *)
(***************************************************************************)
\* history: the stale files of d when those of `old` were stale before and those of
\* `written` are written now
Stamp(d, old, written) == { f \in Files : d[f].exists /\ f \in old /\ f \notin written }

\* what clearGeneratedDirectory can leave behind, with whether every glob answered
\* and every file found was removed
Cleanups(d) ==
    UNION { { [disk |-> clearGeneratedDirectory(d, globThrows, k),
               complete |-> fileOps.removeFile /\ globThrows = {}
                               /\ k = Len(AllFiles(d, globThrows)),
               removed |-> IF fileOps.removeFile THEN k ELSE 0] :
                 k \in 0..Len(AllFiles(d, globThrows)) } :
            globThrows \in SUBSET (1..Len(CleanupPatterns)) }

\* what can throw in setup after the cleanup: the service (createApp, ready, swagger),
\* the port (mkdir, writeFile of the specification), or close after the write
SetupFaults == {"none", "service", "port", "close"}

\* setup(createApp): cleanup, then the service is built and its specification written.
\* Only clearGeneratedDirectory catches; an error of createApp, ready, mkdir, writeFile
\* or close rejects the promise setup returns.
Setup ==
    /\ ~wt
    /\ \E c \in Cleanups(disk), fault \in SetupFaults :
         LET wrote == fault \in {"none", "close"}
             d2 == IF wrote THEN [c.disk EXCEPT ![schemaPath] = File(SchemaText)] ELSE c.disk
         IN /\ disk' = d2
            /\ stale' = Stamp(d2, Files, IF wrote THEN {schemaPath} ELSE {})
            /\ cleaned' = CASE ~c.complete -> "incomplete"
                             [] c.removed = 0 -> "nothing to clear"
                             [] OTHER -> "cleared"
            /\ last' = CASE fault = "none" -> Ended("ok", "none")
                         [] fault = "port" -> Ended("raised", "port")
                         [] OTHER -> Ended("raised", "service")
    /\ fresh' = {}
    /\ UNCHANGED <<fileOps, traffic, attached, ex, wt, appends>>
    /\ UNCHANGED <<matchVars, reportVars>>

\* what can throw in teardown: mkdir or writeFile of the snapshot ("snapshot"),
\* readFile or JSON.parse of the specification ("spec"), glob, readFile or JSON.parse
\* of the traffic files ("traffic"), mkdir or writeFile of the report ("report")
TeardownFaults == {"none", "snapshot", "spec", "traffic", "report"}

\* if (this.traffic.length > 0)
TeardownWrites(log) == Len(log) > 0

\* a teardown that clears the log it has written
LogAfterTeardown_Cleared(log) == <<>>

\* this.traffic when teardown returns: teardown assigns nothing to it
LogAfterTeardown(log) == log

\* teardown(): the log is written as one snapshot unless it is empty, the report is
\* generated from the stored specification and traffic files and written; every error
\* is caught and logged
Teardown ==
    /\ ~wt
    /\ \E fault \in TeardownFaults :
         LET snapThrows == TeardownWrites(traffic) /\ fault = "snapshot"
             wroteSnap == TeardownWrites(traffic) /\ ~snapThrows
             d1 == IF wroteSnap
                   THEN [disk EXCEPT ![TeardownPath] = File(JSONstringify(traffic))]
                   ELSE disk
             report == generateAuditReport(d1, fault)
             reportThrows == report.ok /\ fault = "report"
             wroteReport == ~snapThrows /\ report.ok /\ ~reportThrows
             d2 == IF wroteReport THEN [d1 EXCEPT ![reportPath] = File(report.text)] ELSE d1
         IN /\ disk' = d2
            /\ stale' = Stamp(d2, stale, (IF wroteSnap THEN {TeardownPath} ELSE {})
                                           \cup (IF wroteReport THEN {reportPath} ELSE {}))
            /\ last' = CASE wroteReport -> Ended("ok", "none")
                         [] ~report.ok -> Ended("caught", report.cause)
                         [] OTHER -> Ended("caught", "port")
    /\ traffic' = LogAfterTeardown(traffic)
    /\ UNCHANGED <<fileOps, attached, ex, wt, appends, fresh, cleaned>>
    /\ UNCHANGED <<matchVars, reportVars>>

\* what can throw in writeTraffic: mkdir or writeFile ("port")
WriteTrafficFaults == {"none", "port"}

\* a writeTraffic that clears the log whether or not the write succeeded
LogAfterCatch_Cleared(log) == <<>>

\* this.traffic after the catch block of writeTraffic: only the error is logged
LogAfterCatch(log) == log

\* a writeTraffic that leaves the log as it is
LogAfterWrite_Kept(log) == log

\* this.traffic = []
LogAfterWrite(log) == <<>>

\* writeTraffic(testSuiteName) up to its writeFile: nothing is done for an empty log;
\* a throwing mkdir or writeFile is caught; when writeFile returns a promise (deferred)
\* the call is suspended on it before it clears the log
WriteTraffic(testSuiteName) ==
    /\ ~wt
    /\ \E fault \in WriteTrafficFaults, deferred \in BOOLEAN :
         LET empty == Len(traffic) = 0
             wrote == ~empty /\ fault = "none"
             suspended == wrote /\ deferred
             d1 == IF wrote
                   THEN [disk EXCEPT ![TrafficPath(testSuiteName)] = File(JSONstringify(traffic))]
                   ELSE disk
         IN /\ ~wrote => ~deferred
            /\ empty => fault = "none"
            /\ disk' = d1
            /\ stale' = Stamp(d1, stale, IF wrote THEN {TrafficPath(testSuiteName)} ELSE {})
            /\ traffic' = CASE wrote /\ ~suspended -> LogAfterWrite(traffic)
                             [] ~empty /\ ~wrote -> LogAfterCatch(traffic)
                             [] OTHER -> traffic
            /\ wt' = suspended
            /\ last' = IF ~empty /\ ~wrote THEN Ended("caught", "port") ELSE Ended("ok", "none")
    /\ UNCHANGED <<fileOps, attached, ex, appends, fresh, cleaned>>
    /\ UNCHANGED <<matchVars, reportVars>>

\* the deferred writeFile completes: writeTraffic goes on and clears the log
WriteTrafficResume ==
    /\ wt
    /\ traffic' = LogAfterWrite(traffic)
    /\ wt' = FALSE
    /\ UNCHANGED <<fileOps, attached, ex, disk, last, appends, fresh, stale, cleaned>>
    /\ UNCHANGED <<matchVars, reportVars>>

(***************************************************************************)
(* The path matcher (normalizePathForSchema).  A string is the sequence of *)
(* its characters.                                                         *)
(***************************************************************************)
MaxPaths == 2    \* keys of schema.paths in one specification

\* a matcher that keeps the query component
StripQuery_Keep(url) == url

\* url.split('?')[0]
StripQuery(url) ==
    IF \E i \in 1..Len(url) : url[i] = "?"
    THEN SubSeq(url, 1, (CHOOSE i \in 1..Len(url) :
                            url[i] = "?" /\ \A j \in 1..(i - 1) : url[j] # "?") - 1)
    ELSE url

\* the end of the leftmost match of /\{[^}]+\}/ that starts at position i of the key,
\* 0 when there is none: a brace, one or more characters other than "}", and "}"
PlaceholderEnd(key, i) ==
    IF key[i] = "{" /\ \E j \in (i + 2)..Len(key) : key[j] = "}"
    THEN IF i + 1 <= Len(key) /\ key[i + 1] # "}"
         THEN CHOOSE j \in (i + 2)..Len(key) :
                  key[j] = "}" /\ \A k \in (i + 2)..(j - 1) : key[k] # "}"
         ELSE 0
    ELSE 0

\* new RegExp(`^${schemaPath.replace(/\{[^}]+\}/g, '[^/]+')}$`), as the sequence of the
\* atoms of the pattern: "[^/]+" for a replaced placeholder; of the characters left,
\* "." is the wildcard and the others stand for themselves
RECURSIVE Compile(_, _)
Compile(key, i) ==
    IF i > Len(key) THEN <<>>
    ELSE IF PlaceholderEnd(key, i) # 0
         THEN <<[atom |-> "[^/]+", ch |-> ""]>> \o Compile(key, PlaceholderEnd(key, i) + 1)
         ELSE <<[atom |-> IF key[i] = "." THEN "." ELSE "char", ch |-> key[i]]>>
                  \o Compile(key, i + 1)

\* a pattern whose placeholders are replaced by '[^/]*' and match the empty segment
RECURSIVE Test_Star(_, _)
Test_Star(atoms, str) ==
    IF atoms = <<>> THEN str = <<>>
    ELSE CASE Head(atoms).atom = "char" ->
                  str # <<>> /\ Head(str) = Head(atoms).ch /\ Test_Star(Tail(atoms), Tail(str))
           [] Head(atoms).atom = "." -> str # <<>> /\ Test_Star(Tail(atoms), Tail(str))
           [] OTHER ->
                  \E n \in 0..Len(str) :
                      /\ \A k \in 1..n : str[k] # "/"
                      /\ Test_Star(Tail(atoms), SubSeq(str, n + 1, Len(str)))

\* regex.test(cleanUrl) for an anchored pattern: the atoms consume the whole string
RECURSIVE Test(_, _)
Test(atoms, str) ==
    IF atoms = <<>> THEN str = <<>>
    ELSE IF str = <<>> THEN FALSE
    ELSE CASE Head(atoms).atom = "char" ->
                  Head(str) = Head(atoms).ch /\ Test(Tail(atoms), Tail(str))
           [] Head(atoms).atom = "." -> Test(Tail(atoms), Tail(str))
           [] OTHER ->
                  \E n \in 1..Len(str) :
                      /\ \A k \in 1..n : str[k] # "/"
                      /\ Test(Tail(atoms), SubSeq(str, n + 1, Len(str)))

\* the value normalizePathForSchema returns: a key of schema.paths, or null
Matched(key) == [done |-> TRUE, found |-> TRUE, path |-> key]

Null == [done |-> TRUE, found |-> FALSE, path |-> <<>>]

\* a loop that keeps going and answers with the last key whose pattern matches
FirstTemplate_Last(cleanUrl, schemaPaths) ==
    IF \E i \in 1..Len(schemaPaths) : Test(Compile(schemaPaths[i], 1), cleanUrl)
    THEN Matched(schemaPaths[CHOOSE i \in 1..Len(schemaPaths) :
                     /\ Test(Compile(schemaPaths[i], 1), cleanUrl)
                     /\ \A j \in (i + 1)..Len(schemaPaths) :
                            ~Test(Compile(schemaPaths[j], 1), cleanUrl)])
    ELSE Null

\* the loop over Object.keys(schemaPaths): the first key whose pattern matches
FirstTemplate(cleanUrl, schemaPaths) ==
    IF \E i \in 1..Len(schemaPaths) : Test(Compile(schemaPaths[i], 1), cleanUrl)
    THEN Matched(schemaPaths[CHOOSE i \in 1..Len(schemaPaths) :
                     /\ Test(Compile(schemaPaths[i], 1), cleanUrl)
                     /\ \A j \in 1..(i - 1) : ~Test(Compile(schemaPaths[j], 1), cleanUrl)])
    ELSE Null

\* a matcher without the exact-match step
normalizePathForSchema_TemplatesOnly(url, schemaPaths) ==
    FirstTemplate(StripQuery(url), schemaPaths)

\* normalizePathForSchema(url, schemaPaths); schemaPaths is given by its keys in
\* declaration order
normalizePathForSchema(url, schemaPaths) ==
    IF \E i \in 1..Len(schemaPaths) : schemaPaths[i] = StripQuery(url)
    THEN Matched(StripQuery(url))
    ELSE FirstTemplate(StripQuery(url), schemaPaths)

\* the keys the bounded specifications declare
Keys ==
    { <<"/", "u">>,
      <<"/", "u", "/", "{", "i", "}">>,
      <<"/", "u", "/", "a">>,
      <<"/", "u", "/", "{", "i", "}", "/", "p">>,
      <<"/", "u", "/", "a", "/", "p">>,
      <<"/", "{", "i", "}", "/", "a">>,
      <<"/", "u", ".", "a">> }

\* the request targets
Urls ==
    { <<"/", "u">>, <<"/", "u", "/", "a">>, <<"/", "u", "/", "b">>,
      <<"/", "u", "/", "a", "/", "p">>, <<"/", "u", "/">>, <<"/", "u", "/", "/", "p">>,
      <<"/", "u", "x", "a">>, <<"/", "u", ".", "a">>, <<"/", "x">>,
      <<"/", "u", "/", "{", "i", "}">>,
      <<"/", "u", "/", "a", "?", "q">>, <<"/", "u", "?", "q", "/", "a">> }

\* the specifications: up to MaxPaths distinct keys in declaration order
Schemas ==
    { ks \in UNION { [1..n -> Keys] : n \in 1..MaxPaths } :
        \A i, j \in 1..Len(ks) : i # j => ks[i] # ks[j] }

\* mResult before the call
Pending == [done |-> FALSE, found |-> FALSE, path |-> <<>>]

\* one call of the matcher
Match ==
    /\ ~mResult.done
    /\ mPaths # <<>>
    /\ mResult' = normalizePathForSchema(mUrl, mPaths)
    /\ UNCHANGED <<mPaths, mUrl>>
    /\ UNCHANGED <<fileOps, traffic, attached, ex, disk, wt, last, appends, fresh, stale,
                   cleaned>>
    /\ UNCHANGED reportVars

(***************************************************************************)
(* The report (generateReport).  schema.paths is the sequence of its       *)
(* entries in declaration order; an entry has its key and, under ops, the  *)
(* keys of the path item in declaration order, each with the keys of its   *)
(* responses object.                                                       *)
(***************************************************************************)
MaxRecords == 2    \* records aggregated from the traffic files

\* record.method.toLowerCase()
toLowerCase(method) ==
    CASE method \in {"GET", "get"} -> "get"
      [] method \in {"POST", "post"} -> "post"
      [] OTHER -> method

\* method.toUpperCase()
toUpperCase(method) ==
    CASE method \in {"GET", "get"} -> "GET"
      [] method \in {"POST", "post"} -> "POST"
      [] OTHER -> method

\* Number(status) for a key of a responses object: NaN for a key such as "default"
Number(status) ==
    CASE status = "200" -> [nan |-> FALSE, n |-> 200]
      [] status = "404" -> [nan |-> FALSE, n |-> 404]
      [] OTHER -> [nan |-> TRUE, n |-> 0]

\* testedStatuses.has(Number(status)): the statuses of records are numbers, never NaN
Has(testedStatuses, number) == ~number.nan /\ number.n \in testedStatuses

\* Object.keys(paths)
ObjectKeys(paths) == [i \in 1..Len(paths) |-> paths[i].key]

\* Object.keys(pathObj).filter((key) => key !== 'parameters')
Methods(pathObj) == SelectSeq(pathObj.ops, LAMBDA op : op.name # "parameters")

\* this.normalizePathForSchema(record.url, paths)
NormalizedPath(paths, record) == normalizePathForSchema(record.url, ObjectKeys(paths))

\* the records of documented endpoints, by their index in the traffic
Documented(paths, allTraffic) ==
    { i \in 1..Len(allTraffic) : NormalizedPath(paths, allTraffic[i]).found }

\* a loop that marks a path as tested only when the record's method and status are
\* declared for it
TestedPaths_DeclaredOnly(paths, allTraffic) ==
    { NormalizedPath(paths, allTraffic[i]).path :
        i \in { j \in Documented(paths, allTraffic) :
                  \E k \in 1..Len(paths) :
                      /\ paths[k].key = NormalizedPath(paths, allTraffic[j]).path
                      /\ \E m \in 1..Len(Methods(paths[k])) :
                             /\ Methods(paths[k])[m].name = toLowerCase(allTraffic[j].method)
                             /\ \E n \in 1..Len(Methods(paths[k])[m].responses) :
                                    Number(Methods(paths[k])[m].responses[n])
                                        = [nan |-> FALSE, n |-> allTraffic[j].status] } }

\* testedPaths after the loop over the traffic
TestedPaths(paths, allTraffic) ==
    { NormalizedPath(paths, allTraffic[i]).path : i \in Documented(paths, allTraffic) }

\* a loop that keeps, per path and method, only the status of the latest record
TestedStatuses_Last(paths, allTraffic, pathKey, method) ==
    LET seen == { j \in Documented(paths, allTraffic) :
                    /\ NormalizedPath(paths, allTraffic[j]).path = pathKey
                    /\ toLowerCase(allTraffic[j].method) = method }
    IN { allTraffic[i].status : i \in { j \in seen : \A k \in seen : k <= j } }

\* testedMethodsWithStatus.get(pathKey)?.get(method) || new Set() after the loop
TestedStatuses(paths, allTraffic, pathKey, method) ==
    { allTraffic[i].status :
        i \in { j \in Documented(paths, allTraffic) :
                  /\ NormalizedPath(paths, allTraffic[j]).path = pathKey
                  /\ toLowerCase(allTraffic[j].method) = method } }

\* `${record.method.toUpperCase()} ${record.url}`
UndocumentedKey(record) == <<toUpperCase(record.method), record.url>>

\* undocumentedEndpoints after the loop: each key with the statuses seen for it
UndocumentedEndpoints(paths, allTraffic) ==
    LET others == (1..Len(allTraffic)) \ Documented(paths, allTraffic)
    IN { [pathKey |-> UndocumentedKey(allTraffic[i]),
          statuses |-> { allTraffic[j].status :
                           j \in { k \in others : UndocumentedKey(allTraffic[k])
                                                     = UndocumentedKey(allTraffic[i]) } }] :
           i \in others }

\* the (path, method, status) combinations the loop over Object.entries(paths) visits
Combos(paths) ==
    UNION { UNION { { [path |-> paths[i].key,
                       method |-> Methods(paths[i])[j].name,
                       status |-> Methods(paths[i])[j].responses[k]] :
                         k \in 1..Len(Methods(paths[i])[j].responses) } :
                    j \in 1..Len(Methods(paths[i])) } :
            i \in 1..Len(paths) }

\* a count that takes a status for tested when any method of the path answered with it
TestedCombos_AnyMethod(paths, allTraffic) ==
    { c \in Combos(paths) :
        \E m \in {"get", "post"} :
            Has(TestedStatuses(paths, allTraffic, c.path, m), Number(c.status)) }

\* the combinations counted in testedMethodStatusCombos
TestedCombos(paths, allTraffic) ==
    { c \in Combos(paths) :
        Has(TestedStatuses(paths, allTraffic, c.path, c.method), Number(c.status)) }

\* `${Math.round((part / whole) * 100)}`: 0 / 0 is NaN and n / 0 is Infinity, which
\* Math.round returns as they are; otherwise the nearest integer, halves upwards
Percentage(part, whole) ==
    IF whole = 0
    THEN [shown |-> IF part = 0 THEN "NaN" ELSE "Infinity", value |-> 0]
    ELSE [shown |-> "number", value |-> (200 * part + whole) \div (2 * whole)]

\* untestedPaths
UntestedPaths(paths, allTraffic) ==
    SelectSeq(ObjectKeys(paths), LAMBDA path : path \notin TestedPaths(paths, allTraffic))

\* missingStatuses of the methods of one path, after Object.keys(responses).map(Number)
MissingStatuses(paths, allTraffic, pathObj) ==
    { [method |-> c.method, status |-> Number(c.status)] :
        c \in { x \in Combos(<<pathObj>>) :
                  ~Has(TestedStatuses(paths, allTraffic, x.path, x.method), Number(x.status)) } }

\* partiallyTestedPaths, each with what its entry under Missing Status Code Coverage
\* lists
PartiallyTestedPaths(paths, allTraffic) ==
    LET partial == SelectSeq(paths, LAMBDA pathObj :
                       /\ pathObj.key \in TestedPaths(paths, allTraffic)
                       /\ MissingStatuses(paths, allTraffic, pathObj) # {})
    IN [i \in 1..Len(partial) |->
           [path |-> partial[i].key,
            missing |-> MissingStatuses(paths, allTraffic, partial[i])]]

\* a number as join(', ') writes it
StatusText(number) ==
    CASE number.nan -> "NaN"
      [] number.n = 200 -> "200"
      [] number.n = 404 -> "404"
      [] OTHER -> "other"

\* the Tested Endpoints section: per path of testedMethodsWithStatus, per method of the
\* records mapped to it, the statuses seen
TestedEndpoints(paths, allTraffic) ==
    { [path |-> NormalizedPath(paths, allTraffic[i]).path,
       method |-> toUpperCase(toLowerCase(allTraffic[i].method)),
       statuses |-> TestedStatuses(paths, allTraffic,
                                   NormalizedPath(paths, allTraffic[i]).path,
                                   toLowerCase(allTraffic[i].method))] :
        i \in Documented(paths, allTraffic) }

\* the Completely Untested Endpoints section: per untested path, its methods and
\* Object.keys(responses) of each
CompletelyUntested(paths, allTraffic) ==
    LET untested == SelectSeq(paths, LAMBDA pathObj :
                        pathObj.key \notin TestedPaths(paths, allTraffic))
    IN [i \in 1..Len(untested) |->
           [path |-> untested[i].key,
            methods |-> [j \in 1..Len(Methods(untested[i])) |->
                            toUpperCase(Methods(untested[i])[j].name)],
            listed |-> { [method |-> toUpperCase(c.method), status |-> c.status] :
                           c \in Combos(<<untested[i]>>) }]]

\* the Missing Status Code Coverage section: per partially tested path, per method
\* with missing statuses, `Missing ${missingStatuses.join(', ')}`
MissingStatusCodes(paths, allTraffic) ==
    [i \in 1..Len(PartiallyTestedPaths(paths, allTraffic)) |->
        [path |-> PartiallyTestedPaths(paths, allTraffic)[i].path,
         listed |-> { [method |-> toUpperCase(m.method), status |-> StatusText(m.status)] :
                        m \in PartiallyTestedPaths(paths, allTraffic)[i].missing }]]

\* the headings of the report in the order they are written
Sections(paths, allTraffic) ==
    <<"Coverage Summary">>
    \o (IF UndocumentedEndpoints(paths, allTraffic) # {}
        THEN <<"Undocumented Endpoints">> ELSE <<>>)
    \o <<"Tested Endpoints">>
    \o (IF UntestedPaths(paths, allTraffic) # <<>>
           \/ PartiallyTestedPaths(paths, allTraffic) # <<>>
        THEN <<"Missing Coverage">> ELSE <<>>)
    \o (IF UntestedPaths(paths, allTraffic) # <<>>
        THEN <<"Completely Untested Endpoints">> ELSE <<>>)
    \o (IF PartiallyTestedPaths(paths, allTraffic) # <<>>
        THEN <<"Missing Status Code Coverage">> ELSE <<>>)

\* cResult before the call
NoReport ==
    [done |-> FALSE, testedPaths |-> 0, totalPaths |-> 0,
     pathsPercent |-> [shown |-> "number", value |-> 0],
     tested |-> 0, total |-> 0, combosPercent |-> [shown |-> "number", value |-> 0],
     totalRequests |-> 0, undocumented |-> {}, untested |-> <<>>, partial |-> <<>>,
     testedEndpoints |-> {}, completelyUntested |-> <<>>, missingStatusCodes |-> <<>>,
     sections |-> <<>>]

\* generateReport(schema, traffic), by what the report shows: the Coverage Summary, the
\* Undocumented Endpoints, Tested Endpoints and Missing Coverage sections
CoverageReport(paths, allTraffic) ==
    [done |-> TRUE,
     testedPaths |-> Cardinality(TestedPaths(paths, allTraffic)),
     totalPaths |-> Len(ObjectKeys(paths)),
     pathsPercent |-> Percentage(Cardinality(TestedPaths(paths, allTraffic)),
                                 Len(ObjectKeys(paths))),
     tested |-> Cardinality(TestedCombos(paths, allTraffic)),
     total |-> Cardinality(Combos(paths)),
     combosPercent |-> Percentage(Cardinality(TestedCombos(paths, allTraffic)),
                                  Cardinality(Combos(paths))),
     totalRequests |-> Len(allTraffic),
     undocumented |-> UndocumentedEndpoints(paths, allTraffic),
     untested |-> UntestedPaths(paths, allTraffic),
     partial |-> PartiallyTestedPaths(paths, allTraffic),
     testedEndpoints |-> TestedEndpoints(paths, allTraffic),
     completelyUntested |-> CompletelyUntested(paths, allTraffic),
     missingStatusCodes |-> MissingStatusCodes(paths, allTraffic),
     sections |-> Sections(paths, allTraffic)]

\* the entries the bounded specifications declare
PathItems ==
    { [key |-> <<"/", "x">>,
       ops |-> <<[name |-> "get", responses |-> <<"200", "404">>]>>],
      [key |-> <<"/", "u", "/", "{", "i", "}">>,
       ops |-> <<[name |-> "parameters", responses |-> <<>>],
                 [name |-> "get", responses |-> <<"200">>],
                 [name |-> "post", responses |-> <<"200", "default">>]>>],
      [key |-> <<"/", "u", "/", "a">>,
       ops |-> <<[name |-> "get", responses |-> <<"404">>]>>],
      [key |-> <<"/", "e">>,
       ops |-> <<[name |-> "get", responses |-> <<>>]>>] }

\* schema.paths: none, or up to MaxPaths distinct entries in declaration order
ReportSchemas ==
    { ps \in UNION { [1..n -> PathItems] : n \in 0..MaxPaths } :
        \A i, j \in 1..Len(ps) : i # j => ps[i] # ps[j] }

\* the records the traffic files hold
Records ==
    { [method |-> "GET", url |-> <<"/", "x">>, status |-> 200],
      [method |-> "GET", url |-> <<"/", "x">>, status |-> 404],
      [method |-> "POST", url |-> <<"/", "x">>, status |-> 200],
      [method |-> "GET", url |-> <<"/", "x", "?", "q">>, status |-> 200],
      [method |-> "GET", url |-> <<"/", "u", "/", "a">>, status |-> 200],
      [method |-> "POST", url |-> <<"/", "u", "/", "b">>, status |-> 200],
      [method |-> "GET", url |-> <<"/", "e">>, status |-> 200],
      [method |-> "GET", url |-> <<"/", "d">>, status |-> 200],
      [method |-> "GET", url |-> <<"/", "d", "?", "q">>, status |-> 200],
      [method |-> "GET", url |-> <<"/", "d", "?", "q">>, status |-> 404] }

\* allTraffic when generateReport is called: one record at least
Traffics == UNION { [1..n -> Records] : n \in 1..MaxRecords }

\* one call of generateReport
Report ==
    /\ ~cResult.done
    /\ cTraffic # <<>>
    /\ cResult' = CoverageReport(cPaths, cTraffic)
    /\ UNCHANGED <<cPaths, cTraffic>>
    /\ UNCHANGED <<fileOps, traffic, attached, ex, disk, wt, last, appends, fresh, stale,
                   cleaned>>
    /\ UNCHANGED matchVars

(***************************************************************************)
(* The life cycle.                                                         *)
(***************************************************************************)
Init ==
    /\ fileOps \in [removeFile : BOOLEAN]
    /\ traffic = <<>>
    /\ attached = FALSE
    /\ ex = [e \in Exchanges |-> [pc |-> "idle", partial |-> NoPartial]]
    /\ disk = [f \in Files |-> Absent]
    /\ wt = FALSE
    /\ last = Ended("ok", "none")
    /\ appends = [e \in Exchanges |-> 0]
    /\ fresh = {}
    /\ stale = {}
    /\ cleaned = "incomplete"
    /\ mPaths = <<>>
    /\ mUrl = <<>>
    /\ mResult = Pending
    /\ cPaths = <<>>
    /\ cTraffic = <<>>
    /\ cResult = NoReport

Next ==
    \/ RegisterPlugin
    \/ \E e \in Exchanges : OnRequest(e)
    \/ \E e \in Exchanges : PreHandler(e)
    \/ \E e \in Exchanges : OnSend(e)
    \/ \E e \in Exchanges : RawWrite(e)
    \/ Setup
    \/ \E testSuiteName \in Suites : WriteTraffic(testSuiteName)
    \/ WriteTrafficResume
    \/ Teardown

Spec == Init /\ [][Next]_vars

\* the matcher applied to each bounded specification and request target
InitMatch ==
    /\ fileOps = [removeFile |-> TRUE]
    /\ traffic = <<>>
    /\ attached = FALSE
    /\ ex = [e \in Exchanges |-> [pc |-> "idle", partial |-> NoPartial]]
    /\ disk = [f \in Files |-> Absent]
    /\ wt = FALSE
    /\ last = Ended("ok", "none")
    /\ appends = [e \in Exchanges |-> 0]
    /\ fresh = {}
    /\ stale = {}
    /\ cleaned = "incomplete"
    /\ mPaths \in Schemas
    /\ mUrl \in Urls
    /\ mResult = Pending
    /\ cPaths = <<>>
    /\ cTraffic = <<>>
    /\ cResult = NoReport

NextMatch == Match

SpecMatch == InitMatch /\ [][NextMatch]_vars

\* what a file holds when setup begins: the outputs of an earlier cycle, or text that
\* is not the auditor's
Leftover(f) ==
    CASE f = schemaPath -> SchemaText
      [] f = reportPath -> EmptyReport
      [] f.dir = trafficDir ->
             JSONstringify(<<[method |-> "GET", url |-> 1, request |-> "undefined",
                              status |-> 200, response |-> "parsed"]>>)
      [] OTHER -> [kind |-> "other", recs |-> <<>>, total |-> 0]

\* setup called over any stored files, with and without removeFile
InitCleanup ==
    /\ fileOps \in [removeFile : BOOLEAN]
    /\ traffic = <<>>
    /\ attached = FALSE
    /\ ex = [e \in Exchanges |-> [pc |-> "idle", partial |-> NoPartial]]
    /\ \E present \in SUBSET Files :
           disk = [f \in Files |-> IF f \in present THEN File(Leftover(f)) ELSE Absent]
    /\ wt = FALSE
    /\ last = Ended("ok", "none")
    /\ appends = [e \in Exchanges |-> 0]
    /\ fresh = {}
    /\ stale = {f \in Files : disk[f].exists}
    /\ cleaned = "incomplete"
    /\ mPaths = <<>>
    /\ mUrl = <<>>
    /\ mResult = Pending
    /\ cPaths = <<>>
    /\ cTraffic = <<>>
    /\ cResult = NoReport

NextCleanup == Setup

SpecCleanup == InitCleanup /\ [][NextCleanup]_vars

\* generateReport applied to each bounded specification and traffic
InitReport ==
    /\ fileOps = [removeFile |-> TRUE]
    /\ traffic = <<>>
    /\ attached = FALSE
    /\ ex = [e \in Exchanges |-> [pc |-> "idle", partial |-> NoPartial]]
    /\ disk = [f \in Files |-> Absent]
    /\ wt = FALSE
    /\ last = Ended("ok", "none")
    /\ appends = [e \in Exchanges |-> 0]
    /\ fresh = {}
    /\ stale = {}
    /\ cleaned = "incomplete"
    /\ mPaths = <<>>
    /\ mUrl = <<>>
    /\ mResult = Pending
    /\ cPaths \in ReportSchemas
    /\ cTraffic \in Traffics
    /\ cResult = NoReport

NextReport == Report

SpecReport == InitReport /\ [][NextReport]_vars

(***************************************************************************)
(* Properties.                                                             *)
(***************************************************************************)

C2_CompleteCleanupLeavesNoStaleFile ==
    cleaned \in {"cleared", "nothing to clear"} =>
        \A f \in Files : disk[f].exists => f \notin stale

\* C2, reached: a cleanup removed files, and the cycle after it has written a
\* specification, a suite snapshot and a report
C2_Witness ==
    /\ cleaned = "cleared"
    /\ disk[schemaPath].exists /\ schemaPath \notin stale
    /\ disk[reportPath].exists /\ reportPath \notin stale
    /\ \E n \in Suites : disk[TrafficPath(n)].exists /\ TrafficPath(n) \notin stale

\* C2 as stated: for every port, when a cycle whose setup wrote its specification ends
\* with a teardown that writes its report, every stored file was written in that cycle
C2_Original ==
    [][Teardown /\ last'.how = "ok" /\ schemaPath \notin stale =>
           \A f \in Files : disk'[f].exists => f \notin stale']_vars

\* C3: an exchange has exactly one record pushed when its response is final, and none
\* before, whatever raw writes follow
C3_OneRecordPerExchange ==
    \A e \in Exchanges : appends[e] = IF ex[e].pc = "sent" THEN 1 ELSE 0

\* C3, reached: every exchange is final and has its one record
C3_Witness == \A e \in Exchanges : ex[e].pc = "sent" /\ appends[e] = 1

\* C4 as stated: a public operation that met a failing port operation did not raise
C4_Original == last.cause = "port" => last.how # "raised"

\* C5 as stated: a setup that fails before it has written its specification leaves
\* every stored file as it was
C5_Original ==
    [][Setup /\ last'.how = "raised" /\ (disk'[schemaPath].exists => schemaPath \in stale')
           => disk' = disk]_vars

\* C6 as stated: in a cycle whose setup wrote its specification, the report teardown
\* writes counts only records pushed since that setup began
C6_Original ==
    [][Teardown /\ last'.how = "ok" /\ schemaPath \notin stale =>
           \A e \in Range(disk'[reportPath].text.recs) : e \in fresh]_vars

\* C7 as stated: a record leaves the log only when a snapshot holds it
C7_Original ==
    [][\A e \in Ids(traffic) \ Ids(traffic') :
           \E f \in Files : /\ f.dir = trafficDir
                            /\ e \in Ids(JSONparse(disk'[f].text))]_vars

\* C8: teardown leaves the snapshot alone when the log is empty and writes the log as
\* the snapshot otherwise (unless that write fails, which ends the call with nothing
\* written); the report it writes has as Total Requests the number of records in all
\* the files of the traffic directory, and is the placeholder when that is zero
C8_TeardownSnapshotAndTotal ==
    [][Teardown =>
           /\ traffic = <<>> => disk'[TeardownPath] = disk[TeardownPath]
           /\ traffic # <<>> =>
                  \/ disk'[TeardownPath] = File(JSONstringify(traffic))
                  \/ last'.how = "caught" /\ disk' = disk
           /\ last'.how = "ok" =>
                  LET n == Len(disk'[TeardownPath].text.recs)
                             + Len(disk'[TrafficPath("suiteA")].text.recs)
                             + Len(disk'[TrafficPath("suiteB")].text.recs)
                  IN /\ disk'[reportPath].exists
                     /\ disk'[reportPath].text.total = n
                     /\ disk'[reportPath].text.kind
                            = IF n = 0 THEN "report-empty" ELSE "report-full"]_vars

\* C8, reached: a report over the snapshot of teardown and a snapshot of writeTraffic
C8_Witness ==
    /\ last.how = "ok"
    /\ disk[reportPath].text.total = 2
    /\ Len(disk[TeardownPath].text.recs) = 1
    /\ Len(disk[TrafficPath("suiteA")].text.recs) = 1
    /\ traffic # <<>>

\* C9 (as the code has it): when the specification cannot be loaded, teardown catches
\* the error, returns normally and writes no report
C9_SpecFailureIsCaught ==
    [][Teardown /\ (~disk[schemaPath].exists \/ last'.cause = "spec") =>
           /\ last'.how = "caught"
           /\ disk'[reportPath] = disk[reportPath]]_vars

\* C9, reached: a teardown has ended on a specification it could not load
C9_Witness == last = Ended("caught", "spec") /\ ~disk[schemaPath].exists

\* C9 as stated: teardown raises when the specification file is missing
C9_Original ==
    [][Teardown /\ ~disk[schemaPath].exists /\ disk'[TeardownPath] = disk[TeardownPath]
           => last'.how = "raised"]_vars

\* C10: a request target without query that is a key of the specification is answered
\* with that key
C10_ExactKeyWins ==
    (mResult.done /\ StripQuery(mUrl) = mUrl
        /\ \E i \in 1..Len(mPaths) : mPaths[i] = mUrl)
    => mResult = Matched(mUrl)

\* C10, reached: the target is the second key and the pattern of the first key, a
\* template, matches it too
C10_Witness ==
    /\ mResult.done
    /\ Len(mPaths) = 2
    /\ mPaths[2] = mUrl
    /\ Test(Compile(mPaths[1], 1), mUrl)
    /\ mResult = Matched(mUrl)

\* C11 as stated: when the target (without query) is no key of the specification, the
\* matcher answers with the first key that has as many "/"-delimited segments as the
\* target and whose segments are each a placeholder facing a non-empty segment or equal
\* to the segment they face, and with null when there is no such key
C11_Original ==
    LET RECURSIVE Segments(_)
        Segments(str) ==
            IF \E i \in 1..Len(str) : str[i] = "/"
            THEN LET i == CHOOSE i \in 1..Len(str) :
                              str[i] = "/" /\ \A j \in 1..(i - 1) : str[j] # "/"
                 IN <<SubSeq(str, 1, i - 1)>> \o Segments(SubSeq(str, i + 1, Len(str)))
            ELSE <<str>>
        IsPlaceholder(seg) ==
            /\ Len(seg) >= 3
            /\ seg[1] = "{" /\ seg[Len(seg)] = "}"
            /\ \A k \in 2..(Len(seg) - 1) : seg[k] \notin {"{", "}"}
        SegmentsMatch(key, path) ==
            /\ Len(Segments(key)) = Len(Segments(path))
            /\ \A k \in 1..Len(Segments(key)) :
                   IF IsPlaceholder(Segments(key)[k])
                   THEN Segments(path)[k] # <<>>
                   ELSE Segments(key)[k] = Segments(path)[k]
        hits == {i \in 1..Len(mPaths) : SegmentsMatch(mPaths[i], mUrl)}
    IN (mResult.done /\ StripQuery(mUrl) = mUrl
           /\ \A i \in 1..Len(mPaths) : mPaths[i] # mUrl)
       => mResult = IF hits = {} THEN Null
                    ELSE Matched(mPaths[CHOOSE i \in hits : \A j \in hits : i <= j])

\* C12: a target p?q is answered as the target p is, for every specification: with
\* that key when p is a key, with the first key whose pattern matches p otherwise
C12_QueryIsStripped ==
    \A n \in 1..Len(mUrl) :
        (mResult.done /\ mUrl[n] = "?" /\ \A k \in 1..(n - 1) : mUrl[k] # "?")
        => LET p == SubSeq(mUrl, 1, n - 1)
           IN /\ mResult = normalizePathForSchema(p, mPaths)
              /\ (\E i \in 1..Len(mPaths) : mPaths[i] = p) => mResult = Matched(p)
              /\ (\A i \in 1..Len(mPaths) : mPaths[i] # p) =>
                     mResult = FirstTemplate(p, mPaths)

\* C12, reached: targets with a query answered by the exact step and by a template
C12_Witness ==
    /\ mResult.done
    /\ mUrl = <<"/", "u", "/", "a", "?", "q">>
    /\ mResult.found
    /\ mResult.path \in {<<"/", "u", "/", "a">>, <<"/", "u", "/", "{", "i", "}">>}
    /\ Len(mPaths) = 2
    /\ mPaths[2] = mResult.path

\* C13: when the target is no key and the patterns of several keys match it, the
\* matcher answers with the one declared first, and always answers
C13_FirstDeclaredTemplateWins ==
    mResult.done =>
        \A i \in 1..Len(mPaths) :
            ( /\ \A k \in 1..Len(mPaths) : mPaths[k] # StripQuery(mUrl)
              /\ Test(Compile(mPaths[i], 1), StripQuery(mUrl))
              /\ \A j \in 1..(i - 1) : ~Test(Compile(mPaths[j], 1), StripQuery(mUrl)) )
            => mResult = Matched(mPaths[i])

\* C13, reached: the patterns of both keys match the target, the first one is returned
C13_Witness ==
    /\ mResult.done
    /\ Len(mPaths) = 2
    /\ \A i \in 1..2 : mPaths[i] # mUrl /\ Test(Compile(mPaths[i], 1), mUrl)
    /\ mResult = Matched(mPaths[1])

\* C14: the tested count is the number of declared (path, method, status) combinations
\* for which some record is matched to that path, has that method once lower-cased and
\* has that status; the total is the number of declared combinations; when the total is
\* not zero the percentage shown is the integer nearest to 100 * tested / total; and a
\* path listed under Missing Status Code Coverage is listed with exactly its declared
\* (method, status) pairs that no record hit
C14_TestedCombos ==
    LET Hit(c) ==
            \E i \in 1..Len(cTraffic) :
                /\ normalizePathForSchema(cTraffic[i].url, ObjectKeys(cPaths))
                       = Matched(c.path)
                /\ toLowerCase(cTraffic[i].method) = c.method
                /\ Number(c.status) = [nan |-> FALSE, n |-> cTraffic[i].status]
        hits == { c \in Combos(cPaths) : Hit(c) }
    IN cResult.done =>
        /\ cResult.tested = Cardinality(hits)
        /\ cResult.total = Cardinality(Combos(cPaths))
        /\ cResult.total > 0 =>
               /\ cResult.combosPercent.shown = "number"
               /\ 2 * (cResult.combosPercent.value * cResult.total
                           - 100 * cResult.tested) \in (0 - cResult.total)..cResult.total
        /\ \A k \in 1..Len(cResult.partial) :
               cResult.partial[k].missing
                   = { [method |-> c.method, status |-> Number(c.status)] :
                         c \in { x \in Combos(cPaths) \ hits :
                                   x.path = cResult.partial[k].path } }

\* C14, reached: the specification declares get on /x with 200 and 404, the one record
\* is GET /x 200: 1/2 (50%), and /x is listed as missing (get, 404)
C14_Witness ==
    /\ cResult.done
    /\ ObjectKeys(cPaths) = << <<"/", "x">> >>
    /\ cTraffic = << [method |-> "GET", url |-> <<"/", "x">>, status |-> 200] >>
    /\ cResult.tested = 1 /\ cResult.total = 2
    /\ cResult.combosPercent = [shown |-> "number", value |-> 50]
    /\ cResult.partial
           = << [path |-> <<"/", "x">>,
                 missing |-> {[method |-> "get", status |-> [nan |-> FALSE, n |-> 404]]}] >>

\* C15 as stated: the undocumented endpoints are the keys "METHOD path" of the records
\* no declared path matches, the method upper-cased and the path being the target with
\* its query stripped, each with all the statuses of the records of that key
C15_Original ==
    LET others == { i \in 1..Len(cTraffic) :
                      normalizePathForSchema(cTraffic[i].url, ObjectKeys(cPaths)) = Null }
        Key(i) == <<toUpperCase(cTraffic[i].method), StripQuery(cTraffic[i].url)>>
    IN cResult.done =>
           cResult.undocumented
               = { [pathKey |-> Key(i),
                    statuses |-> { cTraffic[j].status : j \in { k \in others : Key(k) = Key(i) } }] :
                     i \in others }

\* C16 as stated: with one record at least, a percentage whose denominator is zero is
\* shown as not applicable, and neither percentage is ever shown as NaN or Infinity
C16_Original ==
    (cResult.done /\ Len(cTraffic) >= 1) =>
        /\ cResult.totalPaths = 0 => cResult.pathsPercent.shown = "n/a"
        /\ cResult.total = 0 => cResult.combosPercent.shown = "n/a"
        /\ cResult.pathsPercent.shown \notin {"NaN", "Infinity"}
        /\ cResult.combosPercent.shown \notin {"NaN", "Infinity"}

\* C17: a teardown that loads the specification, finds no record in any traffic file
\* and meets no failing file operation writes the placeholder as the report, without
\* summary or endpoint sections, and ends without an error
C17_NoTrafficGivesPlaceholder ==
    [][(Teardown /\ disk[schemaPath].exists /\ last'.cause = "none"
          /\ \A f \in Files : f.dir = trafficDir => JSONparse(disk'[f].text) = <<>>)
       => /\ last'.how = "ok"
          /\ disk'[reportPath].exists
          /\ disk'[reportPath].text.kind = "report-empty"
          /\ disk'[reportPath].text.recs = <<>>
          /\ disk'[reportPath].text.total = 0]_vars

\* C17, reached: the placeholder has been written over a stored specification with the
\* traffic directory and the log empty
C17_Witness ==
    /\ last = Ended("ok", "none")
    /\ disk[schemaPath].exists
    /\ disk[reportPath] = File(EmptyReport)
    /\ reportPath \notin stale
    /\ \A f \in Files : f.dir = trafficDir => ~disk[f].exists
    /\ traffic = <<>>

\* C18: a step leaves the log as it is, empties it, or is the finalization of one
\* exchange and appends that exchange's record behind the records of the exchanges
\* finalized before it; a traffic file that is written holds the records in the order
\* of the log
C18_LogInFinalizationOrder ==
    [][ /\ \/ traffic' = traffic
           \/ traffic' = <<>>
           \/ \E e \in Exchanges :
                  /\ ex[e].pc = "handled" /\ ex'[e].pc = "sent"
                  /\ Len(traffic') = Len(traffic) + 1
                  /\ SubSeq(traffic', 1, Len(traffic)) = traffic
                  /\ traffic'[Len(traffic')].url = RequestOf(e).url
        /\ \A f \in Files :
               (f.dir = trafficDir /\ disk'[f] # disk[f] /\ disk'[f].exists)
               => [i \in 1..Len(disk'[f].text.recs) |-> disk'[f].text.recs[i].url]
                      = [i \in 1..Len(traffic) |-> traffic[i].url] ]_vars

\* C18, reached: exchange 2 arrived after exchange 1 and was finalized before it; the
\* log and a snapshot hold the record of 2 before the record of 1
C18_Witness ==
    /\ Len(traffic) = 2
    /\ traffic[1].url = 2 /\ traffic[2].url = 1
    /\ \E f \in Files :
           /\ f.dir = trafficDir
           /\ Len(disk[f].text.recs) = 2
           /\ disk[f].text.recs[1].url = 2 /\ disk[f].text.recs[2].url = 1

\* C19: every record of the log, and of every traffic file, belongs to an exchange whose
\* response is final and carries its method, body, final status and parsed payload; an
\* exchange whose response is not final has no record
C19_RecordsAreFinal ==
    LET Final(r) ==
            /\ r.url \in Exchanges
            /\ ex[r.url].pc = "sent"
            /\ r.method = RequestOf(r.url).method
            /\ r.request = RequestOf(r.url).body
            /\ r.status = ReplyOf(r.url).statusCode
            /\ r.response = parseResponsePayload(ReplyOf(r.url).payload)
    IN /\ \A i \in 1..Len(traffic) : Final(traffic[i])
       /\ \A f \in Files : f.dir = trafficDir =>
              \A r \in Range(JSONparse(disk[f].text)) : Final(r)
       /\ \A e \in Exchanges : ex[e].pc # "sent" => e \notin Ids(traffic)

\* C19, reached: exchange 1 has its body but no final response and is not in the log,
\* exchange 2 is final and is
C19_Witness ==
    /\ ex[1].pc = "handled"
    /\ ex[2].pc = "sent"
    /\ Ids(traffic) = {2}
    /\ traffic[1].status = 404

\* C20: a teardown that cannot load the specification (the file is missing or cannot be
\* parsed) writes nothing at the report path, whatever the log and the traffic files
\* hold; the only file it may write is its snapshot of the log
C20_NoReportWithoutSpecification ==
    [][(Teardown /\ (~disk[schemaPath].exists \/ last'.cause = "spec"))
       => /\ disk'[reportPath] = disk[reportPath]
          /\ \A f \in Files \ {TeardownPath} : disk'[f] = disk[f]
          /\ disk'[TeardownPath] \in {disk[TeardownPath], File(JSONstringify(traffic))}]_vars

\* C20, reached: the stored specification could not be parsed; the log was written as
\* the snapshot and the report of the cycle before is still there
C20_Witness ==
    /\ last = Ended("caught", "spec")
    /\ disk[schemaPath].exists
    /\ traffic # <<>>
    /\ disk[TeardownPath] = File(JSONstringify(traffic))
    /\ disk[reportPath].exists /\ reportPath \in stale

\* C21: a record matched to a declared path puts that path among the tested ones (it
\* is counted, listed under Tested Endpoints and not under Completely Untested
\* Endpoints) and makes no undocumented endpoint, whether or not its method and status
\* are declared; the tested combinations are those of the records whose method and
\* status are declared
C21_UndeclaredPairTestsThePath ==
    LET Hit(i) == normalizePathForSchema(cTraffic[i].url, ObjectKeys(cPaths))
        Declared(r) ==
            \E c \in Combos(cPaths) :
                /\ normalizePathForSchema(r.url, ObjectKeys(cPaths)) = Matched(c.path)
                /\ toLowerCase(r.method) = c.method
                /\ Number(c.status) = [nan |-> FALSE, n |-> r.status]
    IN cResult.done =>
        /\ \A i \in 1..Len(cTraffic) : Hit(i).found =>
               /\ \E e \in cResult.testedEndpoints : e.path = Hit(i).path
               /\ \A k \in 1..Len(cResult.untested) : cResult.untested[k] # Hit(i).path
               /\ \A u \in cResult.undocumented : u.pathKey[2] # cTraffic[i].url
        /\ cResult.testedPaths
               = Cardinality({ Hit(i).path : i \in { j \in 1..Len(cTraffic) : Hit(j).found } })
        /\ cResult.tested
               = Cardinality(TestedCombos(cPaths, SelectSeq(cTraffic, Declared)))

\* C21, reached: the only declared path is /x with get, the only record is POST /x 200:
\* paths 1/1 (100%), combinations 0/2, nothing undocumented
C21_Witness ==
    /\ cResult.done
    /\ ObjectKeys(cPaths) = << <<"/", "x">> >>
    /\ cTraffic = << [method |-> "POST", url |-> <<"/", "x">>, status |-> 200] >>
    /\ cResult.testedPaths = 1
    /\ cResult.pathsPercent = [shown |-> "number", value |-> 100]
    /\ cResult.tested = 0 /\ cResult.total = 2
    /\ cResult.undocumented = {}

\* C22 as stated: every declared path is in exactly one class: listed under Completely
\* Untested Endpoints with all its declared (method, status) pairs when no record is
\* matched to it; listed under Missing Status Code Coverage with exactly its declared
\* pairs that no record hit when some record is matched to it and such a pair exists;
\* listed under neither otherwise
C22_Original ==
    LET Mapped(key) ==
            \E i \in 1..Len(cTraffic) :
                normalizePathForSchema(cTraffic[i].url, ObjectKeys(cPaths)) = Matched(key)
        Hit(c) ==
            \E i \in 1..Len(cTraffic) :
                /\ normalizePathForSchema(cTraffic[i].url, ObjectKeys(cPaths))
                       = Matched(c.path)
                /\ toLowerCase(cTraffic[i].method) = c.method
                /\ Number(c.status) = [nan |-> FALSE, n |-> cTraffic[i].status]
        Pairs(cs) == { [method |-> toUpperCase(c.method), status |-> c.status] : c \in cs }
        Declared(k) == Combos(<<cPaths[k]>>)
        Untested(k) == { c \in Declared(k) : ~Hit(c) }
        InEntirely(key, pairs) ==
            \E n \in 1..Len(cResult.completelyUntested) :
                /\ cResult.completelyUntested[n].path = key
                /\ cResult.completelyUntested[n].listed = pairs
        InPartially(key, pairs) ==
            \E n \in 1..Len(cResult.missingStatusCodes) :
                /\ cResult.missingStatusCodes[n].path = key
                /\ cResult.missingStatusCodes[n].listed = pairs
        Entirely(key) ==
            \E n \in 1..Len(cResult.completelyUntested) :
                cResult.completelyUntested[n].path = key
        Partially(key) ==
            \E n \in 1..Len(cResult.missingStatusCodes) :
                cResult.missingStatusCodes[n].path = key
    IN cResult.done =>
        \A k \in 1..Len(cPaths) :
            CASE ~Mapped(cPaths[k].key) ->
                     /\ InEntirely(cPaths[k].key, Pairs(Declared(k)))
                     /\ ~Partially(cPaths[k].key)
              [] Mapped(cPaths[k].key) /\ Untested(k) # {} ->
                     /\ InPartially(cPaths[k].key, Pairs(Untested(k)))
                     /\ ~Entirely(cPaths[k].key)
              [] OTHER -> ~Entirely(cPaths[k].key) /\ ~Partially(cPaths[k].key)

\* C23 as stated: a section is written if and only if its backing set is not empty
\* (undocumented keys, tested paths, untested or partially tested paths, untested paths,
\* partially tested paths), and the sections written come in that order
C23_Original ==
    LET Wanted ==
            (IF cResult.undocumented # {} THEN <<"Undocumented Endpoints">> ELSE <<>>)
            \o (IF cResult.testedPaths > 0 THEN <<"Tested Endpoints">> ELSE <<>>)
            \o (IF cResult.untested # <<>> \/ cResult.partial # <<>>
                THEN <<"Missing Coverage">> ELSE <<>>)
            \o (IF cResult.untested # <<>>
                THEN <<"Completely Untested Endpoints">> ELSE <<>>)
            \o (IF cResult.partial # <<>>
                THEN <<"Missing Status Code Coverage">> ELSE <<>>)
    IN cResult.done => Tail(cResult.sections) = Wanted

\* C29: for a given specification the report over a traffic is, but for Total Requests,
\* the report over any traffic with the same distinct records (reordered, or with
\* records repeated); and a record added to a traffic removes no tested path, no tested
\* combination and no status listed under Tested Endpoints
C29_CoverageOfTheSetOfRecords ==
    cResult.done =>
        /\ \A t \in Traffics :
               Range(t) = Range(cTraffic) =>
                   [CoverageReport(cPaths, t) EXCEPT !.totalRequests = 0]
                       = [cResult EXCEPT !.totalRequests = 0]
        /\ Len(cTraffic) > 1 =>
               LET before == CoverageReport(cPaths, SubSeq(cTraffic, 1, Len(cTraffic) - 1))
               IN /\ before.testedPaths <= cResult.testedPaths
                  /\ before.tested <= cResult.tested
                  /\ TestedCombos(cPaths, SubSeq(cTraffic, 1, Len(cTraffic) - 1))
                         \subseteq TestedCombos(cPaths, cTraffic)
                  /\ \A e \in before.testedEndpoints :
                         \E f \in cResult.testedEndpoints :
                             /\ f.path = e.path /\ f.method = e.method
                             /\ e.statuses \subseteq f.statuses
                  /\ \A k \in 1..Len(cResult.untested) :
                         \E n \in 1..Len(before.untested) :
                             before.untested[n] = cResult.untested[k]

\* C29, reached: two different records hit the two declared combinations of /x, so the
\* traffic has a reordering with the same report
C29_Witness ==
    /\ cResult.done
    /\ ObjectKeys(cPaths) = << <<"/", "x">> >>
    /\ Len(cTraffic) = 2
    /\ cTraffic[1] # cTraffic[2]
    /\ cResult.tested = 2
    /\ cResult.totalRequests = 2

C25_Original ==
    [][WriteTrafficResume =>
           \A e \in Ids(traffic) :
               \E n \in Suites : e \in Ids(JSONparse(disk'[TrafficPath(n)].text))]_vars

\* C26: a writeTraffic call whose mkdir or writeFile fails returns normally with the
\* error caught, is not left suspended, and leaves the log and every stored file as
\* they were
C26_FailedWriteKeepsTheLog ==
    [][\A n \in Suites :
           (WriteTraffic(n) /\ last'.cause = "port")
           => /\ last'.how = "caught"
              /\ traffic # <<>> /\ traffic' = traffic
              /\ disk' = disk
              /\ ~wt']_vars

\* C26, reached: after a failed write the record is still in the log, next to the
\* snapshot an earlier call wrote with the other record
C26_Witness ==
    /\ last = Ended("caught", "port")
    /\ Len(traffic) = 1
    /\ \E n \in Suites :
           /\ disk[TrafficPath(n)].exists
           /\ Ids(JSONparse(disk[TrafficPath(n)].text)) # {}
           /\ Ids(JSONparse(disk[TrafficPath(n)].text)) \cap Ids(traffic) = {}
    /\ ~disk[TeardownPath].exists
    /\ ~disk[schemaPath].exists

\* C27: teardown leaves the log as it is, however it ends; a step that empties a log
\* with records is registerPlugin, a writeTraffic that wrote, or the completion of a
\* suspended writeTraffic
C27_TeardownKeepsTheLog ==
    [][ /\ Teardown => traffic' = traffic
        /\ (traffic # <<>> /\ traffic' = <<>>) =>
               \/ RegisterPlugin
               \/ WriteTrafficResume
               \/ \E n \in Suites : WriteTraffic(n) /\ last'.how = "ok" ]_vars

\* C27, reached: a teardown that failed on a file operation with two records in the
\* log, which are still there
C27_Witness ==
    /\ last = Ended("caught", "port")
    /\ Len(traffic) = 2
    /\ disk[TeardownPath] = File(JSONstringify(traffic))
    /\ ~disk[reportPath].exists

====
